---- MODULE Spec2Model ----
(***************************************************************************)
(* ZodWorker: a typed task-dispatch layer over the graphile-worker engine. *)
(* The model follows the ZodWorker class: the constructor's registries,    *)
(* initialize / stop, enqueue / dequeue through the transactional context, *)
(* and the dispatch table's two paths (#handleMessage and                  *)
(* #handleRecurringTask).                                                  *)
(***************************************************************************)
EXTENDS Integers, Sequences, FiniteSets, TLC

\* ------------------------------------------------------------------------
\* Bounds
\* ------------------------------------------------------------------------

\* Largest number of graphileRun invocations explored.
MaxRuns == 2

\* ------------------------------------------------------------------------
\* JavaScript values.  Every value is a record of one shape, so that values
\* of different JavaScript types can be compared.
\* ------------------------------------------------------------------------

JS(t, n, s, a) == [t |-> t, n |-> n, s |-> s, a |-> a]

Undefined == JS("undefined", 0, "", <<>>)

Null == JS("null", 0, "", <<>>)

Num(n) == JS("number", n, "", <<>>)

Str(s) == JS("string", 0, s, <<>>)

Arr(a) == JS("array", 0, "", a)

Fn(name) == JS("function", 0, name, <<>>)

\* JavaScript truthiness, as used by `x || null` and `!x`.
Truthy(v) ==
  CASE v.t = "undefined" -> FALSE
    [] v.t = "null" -> FALSE
    [] v.t = "number" -> v.n # 0
    [] v.t = "string" -> v.s # ""
    [] OTHER -> TRUE

\* `x || null`
OrNull(v) == IF Truthy(v) THEN v ELSE Null

\* ------------------------------------------------------------------------
\* Payloads
\* ------------------------------------------------------------------------

\* The body of an ordinary payload: the number 1, the string "1", or
\* something that is no number at all.
Bodies == {"1", "'1'", "x"}

\* Raw values of _cron.ts: an ISO string, epoch milliseconds, null and a
\* string that is no date.
TsTokens == {"1970-01-01T00:00:01Z", "1000", "null", "garbage"}

\* Raw values of _cron.backfilled: the two booleans and the string "true".
BackfilledTokens == {"true", "false", "'true'"}

PlainPayload(b) == [cron |-> FALSE, ts |-> "", backfilled |-> "", body |-> b]

CronPayload(ts, bf) == [cron |-> TRUE, ts |-> ts, backfilled |-> bf, body |-> ""]

PlainPayloads == {PlainPayload(b) : b \in Bodies}

\* The envelopes explored: every ts with backfilled false, and the other
\* values of backfilled with ts in epoch milliseconds.
CronPayloads ==
  {CronPayload(ts, "false") : ts \in TsTokens}
    \cup {CronPayload("1000", bf) : bf \in BackfilledTokens \ {"false"}}

\* The job records the engine hands to a firing (helpers.job).
Jobs == {"job-1", "job-2"}

RawPayloads == PlainPayloads \cup CronPayloads

\* A parse result: ok with a value, or a failure.
Parsed(v) == [ok |-> TRUE, value |-> v]

ParseFailure(v) == [ok |-> FALSE, value |-> v]

\* z.coerce.date(): new Date(input), rejected when the date is invalid.
\* The value is the date in epoch milliseconds.
CoerceDate(token) ==
  CASE token = "1970-01-01T00:00:01Z" -> Parsed(1000)
    [] token = "1000" -> Parsed(1000)
    [] token = "null" -> Parsed(0)
    [] OTHER -> ParseFailure(0)

\* z.boolean(): only the two booleans pass, nothing is coerced.
ParseBoolean(token) ==
  CASE token = "true" -> Parsed(TRUE)
    [] token = "false" -> Parsed(FALSE)
    [] OTHER -> ParseFailure(FALSE)

NoCron == [ts |-> 0, backfilled |-> FALSE]

\* RawCronPayloadSchema.safeParse(rawPayload); the value is data._cron.
RawCronPayloadSchema(raw) ==
  IF raw.cron /\ CoerceDate(raw.ts).ok /\ ParseBoolean(raw.backfilled).ok
  THEN Parsed([ts |-> CoerceDate(raw.ts).value,
               backfilled |-> ParseBoolean(raw.backfilled).value])
  ELSE ParseFailure(NoCron)

\* ------------------------------------------------------------------------
\* The registries given to the constructor
\* ------------------------------------------------------------------------

Ids == {"email", "report", "digest", "legacy"}

Absent == "absent"

\* The message catalog's validators.  "number" is z.number() on the body,
\* "coerce" is z.coerce.number(); both yield the number 1 on success.
SchemaKinds == {"number", "coerce"}

SchemaParse(kind, raw) ==
  CASE kind = "number" ->
         IF raw.body = "1" THEN Parsed(PlainPayload("1")) ELSE ParseFailure(raw)
    [] kind = "coerce" ->
         IF raw.body \in {"1", "'1'"} THEN Parsed(PlainPayload("1"))
         ELSE ParseFailure(raw)
    [] OTHER -> ParseFailure(raw)

\* The queue-name function a task definition may carry: the queue is named
\* after a numeric body, and a body that is no number has no queue name.
QueueNameFn(name, payload) ==
  CASE name = "byBody" -> IF payload.body = "x" THEN "" ELSE "queue-" \o payload.body
    [] OTHER -> ""

TaskDef(queueName, priority, maxAttempts, jobKeyMode, flags) ==
  [queueName |-> queueName, priority |-> priority, maxAttempts |-> maxAttempts,
   jobKeyMode |-> jobKeyMode, flags |-> flags]

TaskDefNames == {"plain", "static", "dynamic"}

\* The task definitions explored; a field that is Undefined is a key the
\* definition does not have.
TaskDefOf(name) ==
  CASE name = "static" ->
         TaskDef(Str("qT"), Num(2), Num(3), Str("replace"), Arr(<<"fT">>))
    [] name = "dynamic" ->
         TaskDef(Fn("byBody"), Num(0), Undefined, Undefined, Undefined)
    [] OTHER ->
         TaskDef(Undefined, Undefined, Undefined, Undefined, Undefined)

\* ------------------------------------------------------------------------
\* State
\* ------------------------------------------------------------------------

VARIABLES
  schema,          \* #schema: identifier -> validator kind, or Absent
  tasks,           \* #tasks: identifier -> task definition name, or Absent
  recurringTasks,  \* #recurringTasks: the identifiers declared recurring
  runner,          \* #runner: 0 (undefined) or the engine it refers to
  engines,         \* the engines graphileRun was asked to start, in order
  pending,         \* the engines whose graphileRun promise is unsettled
  startedOk,       \* some initialize() has returned true
  call,            \* the latest operation and its inputs
  outcome,         \* how the latest operation ended
  txLog,           \* the queries the latest operation issued on the context
  invoked          \* the handlers the latest operation invoked

vars == <<schema, tasks, recurringTasks, runner, engines, pending, startedOk,
          call, outcome, txLog, invoked>>

config == <<schema, tasks, recurringTasks>>

\* ------------------------------------------------------------------------
\* Records of the latest operation
\* ------------------------------------------------------------------------

Call(op, identifier, payload, options, jobKey, job, engine, reply) ==
  [op |-> op, identifier |-> identifier, payload |-> payload, options |-> options,
   jobKey |-> jobKey, job |-> job, engine |-> engine, reply |-> reply]

NoCall == Call("none", "", PlainPayload(""), "none", "", "", 0, "")

JobRecord(defined, task_identifier, queue_name, priority, max_attempts, key, flags) ==
  [defined |-> defined, task_identifier |-> task_identifier, queue_name |-> queue_name,
   priority |-> priority, max_attempts |-> max_attempts, key |-> key, flags |-> flags]

\* The value `undefined` where a job record is expected.
NoJob == JobRecord(FALSE, Undefined, Undefined, Undefined, Undefined, Undefined, Undefined)

Outcome(status, error, job) == [status |-> status, error |-> error, job |-> job]

Ok == Outcome("ok", "", NoJob)

Suspended == Outcome("pending", "", NoJob)

Failed(error) == Outcome("error", error, NoJob)

\* A handler invocation: the registry the handler belongs to, its identifier
\* and the two arguments.  A task handler's payload is in `payload`, a
\* recurring handler's payload is in `cron`.
Invocation(registry, identifier, payload, cron, job) ==
  [registry |-> registry, identifier |-> identifier, payload |-> payload,
   cron |-> cron, job |-> job]

\* What a dispatch path did: the handlers it invoked and the error it threw.
Dispatch(error, calls) == [error |-> error, calls |-> calls]

\* ------------------------------------------------------------------------
\* Dispatcher
\* ------------------------------------------------------------------------

\* #createTaskListFromTasks with its two loops in the other order: the
\* entries of #tasks overwrite those of #recurringTasks.
createTaskListFromTasks_TasksLast(tks, rec) ==
  LET taskKeys == {k \in Ids : tks[k] # Absent}
  IN  [k \in taskKeys \cup rec |-> IF k \in taskKeys THEN "message" ELSE "recurring"]

\* #createTaskListFromTasks with its first loop over the keys of #schema.
createTaskListFromTasks_CatalogKeys(tks, rec) ==
  LET catalogKeys == {k \in Ids : schema[k] # Absent}
  IN  [k \in catalogKeys \cup rec |-> IF k \in rec THEN "recurring" ELSE "message"]

\* #createTaskListFromTasks: one entry per key of #tasks, then one per key of
\* #recurringTasks, the second loop overwriting the entries of the first.
createTaskListFromTasks(tks, rec) ==
  LET taskKeys == {k \in Ids : tks[k] # Absent}
      first == [k \in taskKeys |-> "message"]
  IN  [k \in taskKeys \cup rec |-> IF k \in rec THEN "recurring" ELSE first[k]]

\* #createCronItemsFromRecurringTasks: the key is both identifier and task.
createCronItemsFromRecurringTasks(rec) ==
  {[identifier |-> k, task |-> k] : k \in rec}

\* #handleMessage with the handler given the raw payload in place of the
\* validator's output.
handleMessage_RawPayload(sch, tks, typeName, rawPayload, job, handlerThrows) ==
  IF sch[typeName] = Absent
  THEN Dispatch("Unknown message type", <<>>)
  ELSE IF ~SchemaParse(sch[typeName], rawPayload).ok
       THEN Dispatch("ZodError", <<>>)
       ELSE IF tks[typeName] = Absent
            THEN Dispatch("No task for message type", <<>>)
            ELSE Dispatch(IF handlerThrows THEN "handler error" ELSE "",
                          <<Invocation("tasks", typeName, rawPayload, NoCron, job)>>)

\* #handleMessage with safeParse in place of parse and its failure ignored.
handleMessage_ParseIgnored(sch, tks, typeName, rawPayload, job, handlerThrows) ==
  IF sch[typeName] = Absent
  THEN Dispatch("Unknown message type", <<>>)
  ELSE IF tks[typeName] = Absent
       THEN Dispatch("No task for message type", <<>>)
       ELSE Dispatch(IF handlerThrows THEN "handler error" ELSE "",
                     <<Invocation("tasks", typeName,
                                  SchemaParse(sch[typeName], rawPayload).value,
                                  NoCron, job)>>)

\* #handleMessage with the catalog check skipped when the catalog has no
\* entry: the handler gets the raw payload.
handleMessage_NoCatalogCheck(sch, tks, typeName, rawPayload, job, handlerThrows) ==
  IF tks[typeName] = Absent
  THEN Dispatch("No task for message type", <<>>)
  ELSE IF sch[typeName] = Absent
       THEN Dispatch(IF handlerThrows THEN "handler error" ELSE "",
                     <<Invocation("tasks", typeName, rawPayload, NoCron, job)>>)
       ELSE IF ~SchemaParse(sch[typeName], rawPayload).ok
            THEN Dispatch("ZodError", <<>>)
            ELSE Dispatch(IF handlerThrows THEN "handler error" ELSE "",
                          <<Invocation("tasks", typeName,
                                       SchemaParse(sch[typeName], rawPayload).value,
                                       NoCron, job)>>)

\* #handleMessage with the handler called a second time after it rejected.
handleMessage_Retried(sch, tks, typeName, rawPayload, job, handlerThrows) ==
  IF sch[typeName] = Absent
  THEN Dispatch("Unknown message type", <<>>)
  ELSE LET payload == SchemaParse(sch[typeName], rawPayload)
           inv == Invocation("tasks", typeName, payload.value, NoCron, job)
       IN  IF ~payload.ok
           THEN Dispatch("ZodError", <<>>)
           ELSE IF tks[typeName] = Absent
                THEN Dispatch("No task for message type", <<>>)
                ELSE IF handlerThrows
                     THEN Dispatch("handler error", <<inv, inv>>)
                     ELSE Dispatch("", <<inv>>)

\* #handleMessage(typeName, rawPayload, helpers); handlerThrows is whether the
\* task's handler rejects.
handleMessage(sch, tks, typeName, rawPayload, job, handlerThrows) ==
  IF sch[typeName] = Absent
  THEN Dispatch("Unknown message type", <<>>)
  ELSE LET payload == SchemaParse(sch[typeName], rawPayload)
       IN  IF ~payload.ok
           THEN Dispatch("ZodError", <<>>)
           ELSE IF tks[typeName] = Absent
                THEN Dispatch("No task for message type", <<>>)
                ELSE Dispatch(IF handlerThrows THEN "handler error" ELSE "",
                              <<Invocation("tasks", typeName, payload.value, NoCron, job)>>)

\* #handleRecurringTask with the handler given the parsed envelope in place
\* of its _cron member.
handleRecurringTask_Envelope(rec, typeName, rawPayload, job, handlerThrows) ==
  IF typeName \notin rec
  THEN Dispatch("No recurring task for message type", <<>>)
  ELSE IF ~RawCronPayloadSchema(rawPayload).ok
       THEN Dispatch("Failed to parse recurring task payload", <<>>)
       ELSE Dispatch(IF handlerThrows THEN "handler error" ELSE "",
                     <<Invocation("recurringTasks", typeName, rawPayload, NoCron, job)>>)

\* #handleRecurringTask(typeName, rawPayload, helpers).
handleRecurringTask(rec, typeName, rawPayload, job, handlerThrows) ==
  IF typeName \notin rec
  THEN Dispatch("No recurring task for message type", <<>>)
  ELSE LET parsedPayload == RawCronPayloadSchema(rawPayload)
       IN  IF ~parsedPayload.ok
           THEN Dispatch("Failed to parse recurring task payload", <<>>)
           ELSE Dispatch(IF handlerThrows THEN "handler error" ELSE "",
                         <<Invocation("recurringTasks", typeName, PlainPayload(""),
                                      parsedPayload.value, job)>>)

\* The closure stored in the dispatch table under `key`.
Task(route, sch, tks, rec, key, rawPayload, job, handlerThrows) ==
  IF route = "recurring"
  THEN handleRecurringTask(rec, key, rawPayload, job, handlerThrows)
  ELSE handleMessage(sch, tks, key, rawPayload, job, handlerThrows)

\* ------------------------------------------------------------------------
\* Lifecycle
\* ------------------------------------------------------------------------

Engine(status, taskList, cronItems) ==
  [status |-> status, taskList |-> taskList, cronItems |-> cronItems]

\* initialize() without its early return.
hasRunner_Never(r) == FALSE

\* `if (this.#runner)` in initialize(), `this.#runner?.` in stop()
hasRunner(r) == r # 0

\* enqueue and dequeue without their guard.
notInitialized_Never(r) == FALSE

\* `if (!this.#runner)` in enqueue and dequeue
notInitialized(r) == r = 0

\* graphileRun(...) calls made so far.
runCalls == Len(engines)

\* initialize() up to its first suspension: either the early return or the
\* call of graphileRun with the freshly built dispatch table and cron items.
Initialize ==
  /\ IF hasRunner(runner)
     THEN /\ outcome' = Ok
          /\ startedOk' = TRUE
          /\ call' = Call("initialize", "", PlainPayload(""), "none", "", "", 0, "")
          /\ UNCHANGED <<engines, pending>>
     ELSE /\ runCalls < MaxRuns
          /\ engines' = Append(engines,
                               Engine("starting",
                                      createTaskListFromTasks(tasks, recurringTasks),
                                      createCronItemsFromRecurringTasks(recurringTasks)))
          /\ pending' = pending \cup {runCalls + 1}
          /\ outcome' = Suspended
          /\ startedOk' = startedOk
          /\ call' = Call("initialize", "", PlainPayload(""), "none", "", "",
                          runCalls + 1, "")
  /\ txLog' = <<>>
  /\ invoked' = <<>>
  /\ UNCHANGED <<config, runner>>

\* `this.#runner = await graphileRun(...)` with the handle kept when the
\* promise resolves without a runner.
assignedRunner_Kept(current, e, reply) ==
  IF reply = "rejects" THEN current ELSE e

\* `this.#runner = await graphileRun(...)`: the slot after the promise has
\* settled.  A rejection skips the assignment.
assignedRunner(current, e, reply) ==
  CASE reply = "runner" -> e
    [] reply = "nothing" -> 0
    [] OTHER -> current

\* What graphileRun's promise settles with.
RunReplies == {"runner", "nothing", "rejects"}

\* initialize() from the settling of graphileRun to its end.
InitializeResume(e, reply) ==
  /\ e \in pending
  /\ pending' = pending \ {e}
  /\ call' = Call("initialize:resume", "", PlainPayload(""), "none", "", "", e, reply)
  /\ runner' = assignedRunner(runner, e, reply)
  /\ CASE reply = "runner" ->
            /\ engines' = [engines EXCEPT ![e].status = "running"]
            /\ outcome' = Ok
            /\ startedOk' = TRUE
       [] reply = "nothing" ->
            /\ engines' = [engines EXCEPT ![e].status = "failed"]
            /\ outcome' = Failed("Failed to initialize worker queue")
            /\ startedOk' = startedOk
       [] OTHER ->
            /\ engines' = [engines EXCEPT ![e].status = "failed"]
            /\ outcome' = Failed("engine error")
            /\ startedOk' = startedOk
  /\ txLog' = <<>>
  /\ invoked' = <<>>
  /\ UNCHANGED config

\* stop(): `await this.#runner?.stop()`.  The engine behind the handle is
\* asked to shut down; #runner is not assigned.
Stop ==
  /\ engines' = IF hasRunner(runner)
                THEN [engines EXCEPT ![runner].status = "stopped"]
                ELSE engines
  /\ call' = Call("stop", "", PlainPayload(""), "none", "", "", runner, "")
  /\ outcome' = Ok
  /\ txLog' = <<>>
  /\ invoked' = <<>>
  /\ UNCHANGED <<config, runner, pending, startedOk>>

\* The engine fires the task `name` of its dispatch table on a job.
Fire(e, name, rawPayload, job, handlerThrows) ==
  /\ e \in 1..Len(engines)
  /\ engines[e].status = "running"
  /\ name \in DOMAIN engines[e].taskList
  /\ LET d == Task(engines[e].taskList[name], schema, tasks, recurringTasks,
                   name, rawPayload, job, handlerThrows)
     IN  /\ outcome' = IF d.error = "" THEN Ok ELSE Failed(d.error)
         /\ invoked' = d.calls
  /\ call' = Call("fire", name, rawPayload, "none", "", job, e,
                  IF handlerThrows THEN "throws" ELSE "returns")
  /\ txLog' = <<>>
  /\ UNCHANGED <<config, runner, engines, pending, startedOk>>

\* ------------------------------------------------------------------------
\* Enqueue/Dequeue gateway
\* ------------------------------------------------------------------------

Options(queueName, runAt, maxAttempts, jobKey, priority, jobKeyMode, flags, tx) ==
  [queueName |-> queueName, runAt |-> runAt, maxAttempts |-> maxAttempts,
   jobKey |-> jobKey, priority |-> priority, jobKeyMode |-> jobKeyMode,
   flags |-> flags, tx |-> tx]

OptionNames == {"none", "full", "falsy"}

\* The caller's options explored: none at all, every field set together with
\* a transaction, and fields set to falsy values.
OptionsOf(name) ==
  CASE name = "full" ->
         Options(Str("qC"), Num(5), Num(7), Str("k1"), Num(1),
                 Str("preserve_run_at"), Arr(<<"fC">>), Str("tx1"))
    [] name = "falsy" ->
         Options(Str(""), Undefined, Num(0), Str(""), Num(0),
                 Undefined, Undefined, Undefined)
    [] OTHER ->
         Options(Undefined, Undefined, Undefined, Undefined, Undefined,
                 Undefined, Undefined, Undefined)

\* `options?.tx ?? this.#prisma`
txOf(options) == IF options.tx.t \in {"undefined", "null"} THEN "prisma" ELSE options.tx.s

\* JSON.stringify(payload)
JsonStringify(payload) ==
  IF payload.cron
  THEN "{_cron:{ts:" \o payload.ts \o ",backfilled:" \o payload.backfilled \o "}}"
  ELSE "{body:" \o payload.body \o "}"

\* enqueue with the queue-name function applied only when the caller gave no
\* queue name.
effectiveSpec_CallerQueue(task, options, payload) ==
  LET pick(fromTask, fromOptions) ==
        IF fromTask.t # "undefined" THEN fromTask ELSE fromOptions
  IN  [queueName |-> IF task.queueName.t = "function"
                     THEN IF options.queueName.t = "undefined"
                          THEN Str(QueueNameFn(task.queueName.s, payload))
                          ELSE options.queueName
                     ELSE pick(task.queueName, options.queueName),
       runAt |-> options.runAt,
       maxAttempts |-> pick(task.maxAttempts, options.maxAttempts),
       jobKey |-> options.jobKey,
       priority |-> pick(task.priority, options.priority),
       jobKeyMode |-> pick(task.jobKeyMode, options.jobKeyMode),
       flags |-> pick(task.flags, options.flags)]

\* enqueue, lines 144-155: the caller's options without tx, overridden by the
\* keys of the task definition, with a queue-name function applied.
effectiveSpec(task, options, payload) ==
  LET pick(fromTask, fromOptions) ==
        IF fromTask.t # "undefined" THEN fromTask ELSE fromOptions
  IN  [queueName |-> IF task.queueName.t = "function"
                     THEN Str(QueueNameFn(task.queueName.s, payload))
                     ELSE pick(task.queueName, options.queueName),
       runAt |-> options.runAt,
       maxAttempts |-> pick(task.maxAttempts, options.maxAttempts),
       jobKey |-> options.jobKey,
       priority |-> pick(task.priority, options.priority),
       jobKeyMode |-> pick(task.jobKeyMode, options.jobKeyMode),
       flags |-> pick(task.flags, options.flags)]

\* A query on the transactional context: the function called and its named
\* arguments p1..p9, in the order of the SQL parameters $1..$9.
Query(fn, tx, p1, p2, p3, p4, p5, p6, p7, p8, p9) ==
  [fn |-> fn, tx |-> tx, identifier |-> p1, payload |-> p2, queue_name |-> p3,
   run_at |-> p4, max_attempts |-> p5, job_key |-> p6, priority |-> p7,
   flags |-> p8, job_key_mode |-> p9]

\* #addJob, lines 191-212: the values bound to $1..$9, each under the name
\* the SQL text gives its position.
addJobQuery(identifier, payload, spec, tx) ==
  Query("add_job", tx,
        Str(identifier),                 \* $1 identifier
        Str(JsonStringify(payload)),     \* $2 payload
        OrNull(spec.queueName),          \* $3 queue_name
        OrNull(spec.runAt),              \* $4 run_at
        OrNull(spec.maxAttempts),        \* $5 max_attempts
        OrNull(spec.jobKey),             \* $6 job_key
        OrNull(spec.priority),           \* $7 priority
        OrNull(spec.jobKeyMode),         \* $8 flags
        OrNull(spec.flags))              \* $9 job_key_mode

\* #removeJob, lines 229-234.
removeJobQuery(jobKey, tx) ==
  Query("remove_job", tx, Null, Null, Null, Null, Null, Str(jobKey), Null, Null, Null)

\* The engine default for an argument that is null.
Coalesce(v, default) == IF v.t = "null" THEN default ELSE v

\* The row an engine that stores what it is given returns for an add_job
\* query; priority and max_attempts have the engine's defaults.
StoredRow(q) ==
  JobRecord(TRUE, q.identifier, q.queue_name, Coalesce(q.priority, Num(0)),
            Coalesce(q.max_attempts, Num(25)), q.job_key, q.flags)

\* The row the engine returns for the job it removed.
RemovedRow(q) ==
  JobRecord(TRUE, Str("email"), Null, Num(0), Num(25), q.job_key, Null)

\* A row no job record can be read from.
MalformedRow == JobRecord(TRUE, Null, Null, Null, Null, Null, Null)

\* What the transactional context answers to a query.
QueryReplies == {"rows", "empty", "malformed", "throws"}

ResultOf(reply, row) ==
  CASE reply = "rows" -> <<row>>
    [] reply = "malformed" -> <<MalformedRow>>
    [] OTHER -> <<>>

\* GraphileJobSchema, for the fields a job record carries here.
GraphileJobSchema(row) ==
  /\ row.task_identifier.t = "string"
  /\ row.queue_name.t \in {"string", "null"}
  /\ row.priority.t = "number"
  /\ row.max_attempts.t = "number"
  /\ row.key.t \in {"string", "null"}
  /\ row.flags.t \in {"array", "null"}

\* AddJobResultsSchema.safeParse(results).success
AddJobResultsSchema(results) ==
  \A i \in 1..Len(results) : GraphileJobSchema(results[i])

\* rows.data[0]
First(rows) == IF Len(rows) = 0 THEN NoJob ELSE rows[1]

\* #addJob with the result cast to job records without parsing it.
addJobResult_Unparsed(reply, q) ==
  IF reply = "throws"
  THEN Failed("query error")
  ELSE Outcome("ok", "", First(ResultOf(reply, StoredRow(q))))

\* #addJob, lines 214-224, given the query's reply.
addJobResult(reply, q) ==
  LET results == ResultOf(reply, StoredRow(q))
  IN  IF reply = "throws"
      THEN Failed("query error")
      ELSE IF ~AddJobResultsSchema(results)
           THEN Failed("Failed to add job to queue, zod parsing error")
           ELSE Outcome("ok", "", First(results))

\* What the try block of #removeJob throws, "" when it returns: the query's
\* own error, or the error of lines 238-240 as the template literal of line
\* 245 prints it.
removeJobThrown(reply, results) ==
  IF reply = "throws"
  THEN "query error"
  ELSE IF ~AddJobResultsSchema(results)
       THEN "Error: Failed to remove job from queue, zod parsing error"
       ELSE ""

\* #removeJob with an empty result treated as a failure.
removeJobResult_EmptyThrows(reply, q) ==
  LET results == ResultOf(reply, RemovedRow(q))
      thrown == IF Len(results) = 0 /\ reply # "throws"
                THEN "no job with that key"
                ELSE removeJobThrown(reply, results)
  IN  IF thrown # ""
      THEN Failed("Failed to remove job from queue, " \o thrown \o "}")
      ELSE Outcome("ok", "", First(results))

\* #removeJob with a catch block that logs and returns.
removeJobResult_Swallowed(reply, q) ==
  LET results == ResultOf(reply, RemovedRow(q))
  IN  IF removeJobThrown(reply, results) # ""
      THEN Outcome("ok", "", NoJob)
      ELSE Outcome("ok", "", First(results))

\* #removeJob, lines 228-246, given the query's reply: whatever the try block
\* throws is rethrown inside a new error, `Failed to remove job from queue,
\* ${e}}`.
removeJobResult(reply, q) ==
  LET results == ResultOf(reply, RemovedRow(q))
      thrown == removeJobThrown(reply, results)
  IN  IF thrown # ""
      THEN Failed("Failed to remove job from queue, " \o thrown \o "}")
      ELSE Outcome("ok", "", First(results))

\* enqueue with the payload parsed by the catalog's validator before the query.
Enqueue_Validating(identifier, payload, options, reply) ==
  /\ call' = Call("enqueue", identifier, payload, options, "", "", 0, reply)
  /\ IF notInitialized(runner)
     THEN /\ outcome' = Failed("Worker not initialized")
          /\ txLog' = <<>>
     ELSE IF tasks[identifier] = Absent
          THEN /\ outcome' = Failed("TypeError")
               /\ txLog' = <<>>
          ELSE IF /\ schema[identifier] # Absent
                  /\ ~SchemaParse(schema[identifier], payload).ok
               THEN /\ outcome' = Failed("ZodError")
                    /\ txLog' = <<>>
               ELSE LET spec == effectiveSpec(TaskDefOf(tasks[identifier]),
                                              OptionsOf(options), payload)
                        q == addJobQuery(identifier, payload, spec,
                                         txOf(OptionsOf(options)))
                    IN  /\ txLog' = <<q>>
                        /\ outcome' = addJobResult(reply, q)
  /\ invoked' = <<>>
  /\ UNCHANGED <<config, runner, engines, pending, startedOk>>

\* enqueue(identifier, payload, options)
Enqueue(identifier, payload, options, reply) ==
  /\ call' = Call("enqueue", identifier, payload, options, "", "", 0, reply)
  /\ IF notInitialized(runner)
     THEN /\ outcome' = Failed("Worker not initialized")
          /\ txLog' = <<>>
     ELSE IF tasks[identifier] = Absent
          THEN /\ outcome' = Failed("TypeError")
               /\ txLog' = <<>>
          ELSE LET spec == effectiveSpec(TaskDefOf(tasks[identifier]),
                                         OptionsOf(options), payload)
                   q == addJobQuery(identifier, payload, spec, txOf(OptionsOf(options)))
               IN  /\ txLog' = <<q>>
                   /\ outcome' = addJobResult(reply, q)
  /\ invoked' = <<>>
  /\ UNCHANGED <<config, runner, engines, pending, startedOk>>

JobKeys == {"k1", "k2"}

\* The payloads enqueued: one every validator accepts and one none accepts.
EnqueuePayloads == {PlainPayload("1"), PlainPayload("x")}

\* dequeue(jobKey, option)
Dequeue(jobKey, options, reply) ==
  /\ call' = Call("dequeue", "", PlainPayload(""), options, jobKey, "", 0, reply)
  /\ IF notInitialized(runner)
     THEN /\ outcome' = Failed("Worker not initialized")
          /\ txLog' = <<>>
     ELSE LET q == removeJobQuery(jobKey, txOf(OptionsOf(options)))
          IN  /\ txLog' = <<q>>
              /\ outcome' = removeJobResult(reply, q)
  /\ invoked' = <<>>
  /\ UNCHANGED <<config, runner, engines, pending, startedOk>>

\* ------------------------------------------------------------------------
\* Specification
\* ------------------------------------------------------------------------

\* The catalog explored.  "legacy" is a task without a catalog entry, which
\* the types forbid and the constructor does not check.
DeclaredSchema ==
  [k \in Ids |-> CASE k = "email" -> "coerce"
                   [] k \in {"report", "digest"} -> "number"
                   [] OTHER -> Absent]

\* The task registry explored.  "digest" has a catalog entry and no task.
DeclaredTasks ==
  [k \in Ids |-> CASE k = "email" -> "static"
                   [] k = "report" -> "dynamic"
                   [] k = "legacy" -> "plain"
                   [] OTHER -> Absent]

\* The state after construction.  The recurring registry is either not given
\* or holds "digest" and "report", the second being a task as well.
Init ==
  /\ schema = DeclaredSchema
  /\ tasks = DeclaredTasks
  /\ recurringTasks \in {{}, {"report", "digest"}}
  /\ runner = 0
  /\ engines = <<>>
  /\ pending = {}
  /\ startedOk = FALSE
  /\ call = NoCall
  /\ outcome = Ok
  /\ txLog = <<>>
  /\ invoked = <<>>

Next ==
  \/ Initialize
  \/ \E e \in 1..MaxRuns, reply \in RunReplies : InitializeResume(e, reply)
  \/ Stop
  \/ \E id \in Ids, payload \in EnqueuePayloads, options \in OptionNames,
        reply \in QueryReplies : Enqueue(id, payload, options, reply)
  \/ \E jobKey \in JobKeys, options \in {"none", "full"}, reply \in QueryReplies :
        Dequeue(jobKey, options, reply)
  \/ \E e \in 1..MaxRuns, name \in Ids, payload \in RawPayloads, job \in Jobs,
        handlerThrows \in BOOLEAN : Fire(e, name, payload, job, handlerThrows)

Spec == Init /\ [][Next]_vars

\* ------------------------------------------------------------------------
\* Properties
\* ------------------------------------------------------------------------

\* The latest operation issued an add_job query.
AddJobIssued == Len(txLog) = 1 /\ txLog[1].fn = "add_job"

\* The latest operation was a firing routed to #handleMessage.
OnMessagePath ==
  /\ call.op = "fire"
  /\ engines[call.engine].taskList[call.identifier] = "message"

\* C1: as long as no initialize() has returned true, every enqueue and every
\* dequeue fails with "Worker not initialized" and issues no query on the
\* transactional context.
C1_UninitializedFails ==
  (call.op \in {"enqueue", "dequeue"} /\ ~startedOk)
    => /\ outcome = Failed("Worker not initialized")
       /\ txLog = <<>>

\* A dequeue rejected while a graphileRun call is still unsettled.
C1_Witness ==
  /\ call.op = "dequeue"
  /\ ~startedOk
  /\ pending # {}
  /\ outcome.error = "Worker not initialized"

\* C2: an initialize() that begins right after an initialize() has returned
\* true returns true at once: graphileRun is not called again and no dispatch
\* table or cron item list is built.
C2_StartTwice ==
  [][(/\ call.op \in {"initialize", "initialize:resume"}
      /\ outcome.status = "ok"
      /\ call'.op = "initialize")
       => (/\ outcome' = Ok
           /\ engines' = engines
           /\ pending' = pending
           /\ runner' = runner)]_vars

\* The second initialize() has returned true and graphileRun was called once.
C2_Witness ==
  /\ call.op = "initialize"
  /\ outcome = Ok
  /\ Len(engines) = 1
  /\ engines[1].status = "running"

\* C3: after stop() the engine-handle slot is empty.
C3_StopClearsHandle == call.op = "stop" => runner = 0

\* C4, as stated: firing a name of the task registry with a payload its
\* validator accepts invokes exactly that task's handler, once, with the
\* parsed payload and the job of the helpers.
C4_DeclaredTaskFires ==
  (/\ call.op = "fire"
   /\ tasks[call.identifier] # Absent
   /\ schema[call.identifier] # Absent
   /\ SchemaParse(schema[call.identifier], call.payload).ok)
    => invoked = <<Invocation("tasks", call.identifier,
                              SchemaParse(schema[call.identifier], call.payload).value,
                              NoCron, call.job)>>

\* C4, amended: the same for every name of the task registry that is not
\* also a name of the recurring registry.
C4_UnshadowedTaskFires ==
  (/\ call.op = "fire"
   /\ tasks[call.identifier] # Absent
   /\ call.identifier \notin recurringTasks
   /\ schema[call.identifier] # Absent
   /\ SchemaParse(schema[call.identifier], call.payload).ok)
    => invoked = <<Invocation("tasks", call.identifier,
                              SchemaParse(schema[call.identifier], call.payload).value,
                              NoCron, call.job)>>

\* "email" fired with the string "1", which its validator coerces, while
\* another task is shadowed by a recurring task.
C4_Witness ==
  /\ call.op = "fire"
  /\ call.identifier = "email"
  /\ call.payload = PlainPayload("'1'")
  /\ recurringTasks # {}
  /\ Len(invoked) = 1
  /\ invoked[1].payload = PlainPayload("1")

\* C5: on the normal-message path a handler is invoked only with the output
\* of the validator; when the validator rejects the raw payload the firing
\* fails with the validation error and no handler is invoked.
C5_OnlyValidatedPayloads ==
  OnMessagePath =>
    /\ \A i \in 1..Len(invoked) :
         /\ schema[call.identifier] # Absent
         /\ SchemaParse(schema[call.identifier], call.payload).ok
         /\ invoked[i].payload = SchemaParse(schema[call.identifier], call.payload).value
    /\ (/\ schema[call.identifier] # Absent
        /\ ~SchemaParse(schema[call.identifier], call.payload).ok)
         => /\ outcome = Failed("ZodError")
            /\ invoked = <<>>

\* A firing rejected by the validator.
C5_Witness ==
  /\ OnMessagePath
  /\ call.identifier = "report"
  /\ call.payload = PlainPayload("'1'")
  /\ outcome = Failed("ZodError")
  /\ invoked = <<>>

\* C6: a firing on the normal-message path of a name without catalog entry
\* fails with the unknown-message-type error and invokes no handler, whatever
\* the payload and although the name has a task definition.
C6_UnknownMessageType ==
  (OnMessagePath /\ schema[call.identifier] = Absent)
    => /\ outcome = Failed("Unknown message type")
       /\ invoked = <<>>

\* "legacy", a task without catalog entry, fired.
C6_Witness ==
  /\ OnMessagePath
  /\ schema[call.identifier] = Absent
  /\ tasks[call.identifier] # Absent
  /\ outcome = Failed("Unknown message type")

\* The task definition and the caller's options of the latest enqueue.
EnqueuedTask == TaskDefOf(tasks[call.identifier])

EnqueuedOptions == OptionsOf(call.options)

\* The definition's value of a field when the definition sets it, the
\* caller's otherwise.
Preferred(fromTask, fromOptions) ==
  IF fromTask.t = "undefined" THEN fromOptions ELSE fromTask

\* C7: the add_job query carries the specification's flags as flags, its
\* job-key mode as job_key_mode, and identifier, priority, max attempts and
\* job key in their own positions; the record of an engine that stores what
\* it is given shows the submitted identifier, job key and flags.
C7_AddJobArguments ==
  AddJobIssued =>
    LET q == txLog[1]
        spec == effectiveSpec(EnqueuedTask, EnqueuedOptions, call.payload)
    IN  /\ q.identifier = Str(call.identifier)
        /\ q.priority = OrNull(spec.priority)
        /\ q.max_attempts = OrNull(spec.maxAttempts)
        /\ q.job_key = OrNull(spec.jobKey)
        /\ q.flags = OrNull(spec.flags)
        /\ q.job_key_mode = OrNull(spec.jobKeyMode)
        /\ (call.reply = "rows" /\ outcome.status = "ok")
             => /\ outcome.job.task_identifier = Str(call.identifier)
                /\ outcome.job.key = OrNull(spec.jobKey)
                /\ outcome.job.flags = OrNull(spec.flags)

\* The queue name a queue-name function yields for the latest enqueue.
ComputedQueueName == QueueNameFn(EnqueuedTask.queueName.s, call.payload)

\* C8, as stated: when the task definition's queue name is a function f, the
\* add_job query carries f(payload) as queue name.
C8_QueueNameIsComputed ==
  (AddJobIssued /\ EnqueuedTask.queueName.t = "function")
    => txLog[1].queue_name = Str(ComputedQueueName)

\* C8, amended: the add_job query carries f(payload) as queue name when
\* f(payload) is not the empty string, and null when it is; the caller's
\* queue name is never sent.
C8_QueueNameIsComputedOrNull ==
  (AddJobIssued /\ EnqueuedTask.queueName.t = "function")
    => txLog[1].queue_name =
         IF ComputedQueueName = "" THEN Null ELSE Str(ComputedQueueName)

\* An enqueue whose caller names a queue, sent with the computed queue name.
C8_Witness ==
  /\ AddJobIssued
  /\ EnqueuedTask.queueName.t = "function"
  /\ EnqueuedOptions.queueName = Str("qC")
  /\ txLog[1].queue_name = Str("queue-1")

\* C9: each of queue name, priority, max attempts, job-key mode and flags of
\* the add_job query is the task definition's value when the definition sets
\* the field and the caller's otherwise; run_at and job_key are the caller's.
C9_EffectiveSpecification ==
  AddJobIssued =>
    LET q == txLog[1]
    IN  /\ EnqueuedTask.queueName.t # "function"
             => q.queue_name = OrNull(Preferred(EnqueuedTask.queueName,
                                                EnqueuedOptions.queueName))
        /\ q.priority = OrNull(Preferred(EnqueuedTask.priority, EnqueuedOptions.priority))
        /\ q.max_attempts = OrNull(Preferred(EnqueuedTask.maxAttempts,
                                             EnqueuedOptions.maxAttempts))
        /\ q.job_key_mode = OrNull(Preferred(EnqueuedTask.jobKeyMode,
                                             EnqueuedOptions.jobKeyMode))
        /\ q.flags = OrNull(Preferred(EnqueuedTask.flags, EnqueuedOptions.flags))
        /\ q.run_at = OrNull(EnqueuedOptions.runAt)
        /\ q.job_key = OrNull(EnqueuedOptions.jobKey)

\* The latest operation was a firing of a recurring task with a raw payload
\* of the shape {_cron: {ts, backfilled}}.
CronFiring ==
  /\ call.op = "fire"
  /\ call.identifier \in recurringTasks
  /\ call.payload.cron
  /\ CoerceDate(call.payload.ts).ok
  /\ call.payload.backfilled \in {"true", "false"}

\* C10, as stated: the recurring handler is invoked once with the payload
\* {firedAt, backfilled} and the job.
C10_CronFiresWithFiredAt ==
  CronFiring =>
    /\ Len(invoked) = 1
    /\ invoked[1].registry = "recurringTasks"
    /\ invoked[1].identifier = call.identifier
    /\ invoked[1].job = call.job
    /\ invoked[1].cron = [firedAt |-> CoerceDate(call.payload.ts).value,
                          backfilled |-> call.payload.backfilled = "true"]

\* C10, amended: the recurring handler is invoked once with the payload
\* {ts, backfilled}, ts being the envelope's ts as a date, and the job.
C10_CronFiresWithTs ==
  CronFiring =>
    /\ Len(invoked) = 1
    /\ invoked[1].registry = "recurringTasks"
    /\ invoked[1].identifier = call.identifier
    /\ invoked[1].job = call.job
    /\ invoked[1].cron = [ts |-> CoerceDate(call.payload.ts).value,
                          backfilled |-> call.payload.backfilled = "true"]

\* "digest" fired with an ISO date string, its handler given the date.
C10_Witness ==
  /\ CronFiring
  /\ call.identifier = "digest"
  /\ call.payload.ts = "1970-01-01T00:00:01Z"
  /\ Len(invoked) = 1
  /\ invoked[1].cron.ts = 1000
  /\ invoked[1].job = call.job

\* The latest operation was a firing of a recurring task whose raw payload is
\* not of the shape {_cron: {ts: timestamp, backfilled: boolean}}: it has no
\* _cron member, its ts is neither a date string nor a number of
\* milliseconds, or its backfilled is no boolean.
MalformedCronFiring ==
  /\ call.op = "fire"
  /\ call.identifier \in recurringTasks
  /\ ~(/\ call.payload.cron
       /\ call.payload.ts \in {"1970-01-01T00:00:01Z", "1000"}
       /\ call.payload.backfilled \in {"true", "false"})

\* C11: a cron firing with a malformed envelope fails with the parse error
\* and the recurring handler is not invoked.
C11_MalformedEnvelopeFails ==
  MalformedCronFiring
    => /\ outcome = Failed("Failed to parse recurring task payload")
       /\ invoked = <<>>

\* The engines that are running.
LiveEngines == {e \in 1..Len(engines) : engines[e].status = "running"}

\* C12, as stated: at most one engine is live, and a live engine is the one
\* in the handle slot.
C12_SingleLiveEngine ==
  /\ Cardinality(LiveEngines) <= 1
  /\ \A e \in LiveEngines : runner = e

\* At most one initialize() is suspended, it is suspended only while the
\* handle slot is empty, and a live engine is the one in the handle slot.
Serialized ==
  /\ Cardinality(pending) <= 1
  /\ pending # {} => runner = 0
  /\ C12_SingleLiveEngine

\* The step begins an initialize() while another one is suspended.
OverlappingStart ==
  /\ pending # {}
  /\ call'.op = "initialize"
  /\ pending' # pending

\* C12, amended: as long as no initialize() begins while another one is
\* suspended at graphileRun, at most one engine is live and a live engine is
\* the one in the handle slot, whatever else is called in between.
C12_SerializedSingleEngine == [][(Serialized /\ ~OverlappingStart) => Serialized']_vars

\* A second engine started after the first start failed; it is the only live
\* engine and the handle slot holds it.
C12_Witness ==
  /\ Len(engines) = 2
  /\ engines[1].status = "failed"
  /\ engines[2].status = "running"
  /\ runner = 2
  /\ call.op = "stop" \/ call.op = "initialize:resume"

\* The latest operation was a dequeue on a worker whose handle slot is set.
StartedDequeue == call.op = "dequeue" /\ runner # 0

\* C13: on a started worker, a dequeue whose remove_job query returns no row
\* completes without throwing and returns undefined, having issued the query
\* for its job key.
C13_NothingRemoved ==
  (StartedDequeue /\ call.reply = "empty")
    => /\ outcome = Outcome("ok", "", NoJob)
       /\ Len(txLog) = 1
       /\ txLog[1].fn = "remove_job"
       /\ txLog[1].job_key = Str(call.jobKey)

\* A dequeue of a key the engine has no job for.
C13_Witness ==
  /\ StartedDequeue
  /\ call.reply = "empty"
  /\ outcome.status = "ok"
  /\ ~outcome.job.defined

\* What went wrong inside the latest dequeue, as the rethrown message shows it.
DequeueCause ==
  IF call.reply = "throws"
  THEN "query error"
  ELSE "Error: Failed to remove job from queue, zod parsing error"

\* C14: on a started worker, a dequeue whose query throws or whose result is
\* no list of job records fails with the remove-job error, which carries the
\* cause, and returns no record.
C14_RemoveJobErrorCarriesCause ==
  (StartedDequeue /\ call.reply \in {"throws", "malformed"})
    => /\ outcome.status = "error"
       /\ outcome.error = "Failed to remove job from queue, " \o DequeueCause \o "}"
       /\ outcome.job = NoJob

\* A dequeue whose query threw, failed with the wrapped error.
C14_Witness ==
  /\ StartedDequeue
  /\ call.reply = "throws"
  /\ outcome.error = "Failed to remove job from queue, query error}"

\* The latest operation was an enqueue that issued its query and got an
\* answer.
AnsweredEnqueue == call.op = "enqueue" /\ AddJobIssued /\ call.reply # "throws"

\* The rows the latest enqueue got from its query.
EnqueueResults == ResultOf(call.reply, StoredRow(txLog[1]))

\* C15: enqueue returns only when the result of add_job is a list of job
\* records, and then returns the first record of the list (undefined when
\* the list is empty); for any other result it fails with the parse error
\* and returns nothing.
C15_EnqueueReturnsFirstRecord ==
  AnsweredEnqueue =>
    /\ outcome.status = "ok"
         => /\ \A i \in 1..Len(EnqueueResults) : GraphileJobSchema(EnqueueResults[i])
            /\ Len(EnqueueResults) > 0 => outcome.job = EnqueueResults[1]
            /\ Len(EnqueueResults) = 0 => outcome.job = NoJob
    /\ (\E i \in 1..Len(EnqueueResults) : ~GraphileJobSchema(EnqueueResults[i]))
         => outcome = Failed("Failed to add job to queue, zod parsing error")

\* An enqueue answered with a row that is no job record.
C15_Witness ==
  /\ AnsweredEnqueue
  /\ call.reply = "malformed"
  /\ outcome = Failed("Failed to add job to queue, zod parsing error")

\* C16: when graphileRun rejects or resolves without a runner while the
\* handle slot is empty, initialize() fails and the slot stays empty; the
\* next enqueue or dequeue fails with "Worker not initialized" and the next
\* initialize() calls graphileRun again.
C16_FailedStartStaysUninitialized ==
  [][/\ (/\ call'.op = "initialize:resume"
         /\ call'.reply # "runner"
         /\ call' # call
         /\ runner = 0)
          => (outcome'.status = "error" /\ runner' = 0)
     /\ (/\ call.op = "initialize:resume"
         /\ outcome.status = "error"
         /\ runner = 0)
          => /\ call'.op \in {"enqueue", "dequeue"}
                  => outcome' = Failed("Worker not initialized")
             /\ call'.op = "initialize"
                  => (outcome' = Suspended /\ Len(engines') = Len(engines) + 1)]_vars

\* A second graphileRun call, made after the first start failed.
C16_Witness ==
  /\ call.op = "initialize"
  /\ outcome = Suspended
  /\ Len(engines) = 2
  /\ engines[1].status = "failed"
  /\ runner = 0
  /\ pending = {2}

\* The latest operation was an enqueue, on a worker whose handle slot is set,
\* of a declared task with a payload its catalog validator rejects.
RejectedEnqueue ==
  /\ call.op = "enqueue"
  /\ runner # 0
  /\ tasks[call.identifier] # Absent
  /\ schema[call.identifier] # Absent
  /\ ~SchemaParse(schema[call.identifier], call.payload).ok

C18_HandlerInvokedAtMostOnce ==
  call.op = "fire"
    => /\ Len(invoked) <= 1
       /\ (Len(invoked) = 1 /\ call.reply = "throws")
            => outcome = Failed("handler error")
       /\ (Len(invoked) = 1 /\ call.reply = "returns") => outcome = Ok

\* A firing on the message path whose handler rejected.
C18_Witness ==
  /\ call.op = "fire"
  /\ call.reply = "throws"
  /\ Len(invoked) = 1
  /\ invoked[1].registry = "tasks"
  /\ outcome = Failed("handler error")

\* The identifiers declared in both registries.
Colliding == {k \in recurringTasks : tasks[k] # Absent}

\* C19: every dispatch table routes a colliding identifier to the recurring
\* path; a firing of it is parsed as a cron envelope, reaches the recurring
\* handler alone when the envelope parses and no handler otherwise.
C19_CollisionRoutesToRecurring ==
  /\ \A e \in 1..Len(engines) : \A k \in Colliding :
       /\ k \in DOMAIN engines[e].taskList
       /\ engines[e].taskList[k] = "recurring"
  /\ (call.op = "fire" /\ call.identifier \in Colliding)
       => LET parsedPayload == RawCronPayloadSchema(call.payload)
          IN  /\ \A i \in 1..Len(invoked) : invoked[i].registry = "recurringTasks"
              /\ parsedPayload.ok
                   => /\ Len(invoked) = 1
                      /\ invoked[1].identifier = call.identifier
                      /\ invoked[1].cron = parsedPayload.value
              /\ ~parsedPayload.ok
                   => /\ invoked = <<>>
                      /\ outcome = Failed("Failed to parse recurring task payload")

\* A colliding identifier fired with a cron envelope reached the recurring
\* handler.
C19_Witness ==
  /\ call.op = "fire"
  /\ call.identifier \in Colliding
  /\ RawCronPayloadSchema(call.payload).ok
  /\ Len(invoked) = 1
  /\ invoked[1].registry = "recurringTasks"

\* The identifiers declared in either registry.
Declared == {k \in Ids : tasks[k] # Absent} \cup recurringTasks

\* C20: every dispatch table has an entry for exactly the declared
\* identifiers, and no firing ends in the missing-handler or the
\* missing-recurring-task error.
C20_TableCoversDeclaredIds ==
  /\ \A e \in 1..Len(engines) : DOMAIN engines[e].taskList = Declared
  /\ call.op = "fire"
       => /\ call.identifier \in Declared
          /\ outcome.error \notin {"No task for message type",
                                   "No recurring task for message type"}

\* A handler ran in a firing through a table that has no entry for an
\* identifier the catalog knows but the registries do not declare.
C20_Witness ==
  /\ call.op = "fire"
  /\ \E k \in Ids : schema[k] # Absent /\ k \notin DOMAIN engines[call.engine].taskList
  /\ Len(invoked) = 1

====
